---- MODULE Spec2Model ----
(***************************************************************************)
(* Model of the FHIR ingestion pipeline of src/fhir_ingestor.py:           *)
(* FHIRIngestor.validate_resource, derive_patient_id, process_resource,    *)
(* _store_dead_letter, process_batch and the /ingest handler, over a       *)
(* MongoDB-like store.                                                     *)
(*                                                                         *)
(* JSON values are tagged records.  A Python str is a sequence of tokens   *)
(* ("Patient/p1" is <<"Patient", "/", "p1">>), so that startswith and      *)
(* split are computed and not assumed.  A dict is a function from its      *)
(* keys; a key that is not in the DOMAIN is absent.  A Python exception    *)
(* leaving a function is the value Raise.                                  *)
(***************************************************************************)
EXTENDS Integers, Sequences, FiniteSets, TLC

VARIABLES
  stats,       \* FHIRIngestor.stats
  db,          \* the type collections: collection name -> list of documents
  dead,        \* the dead_fhir collection: list of entries
  pc,          \* "idle", or "batch" while process_batch is running
  resources,   \* process_batch: its argument
  batch_size,  \* process_batch: its argument
  i,           \* process_batch: the outer loop variable
  j,           \* process_batch: how many elements of the current chunk are done
  ret,         \* what the last process_batch returned (or Raise)
  call,        \* the last process_resource call: argument, result, state before
  prev,        \* the process_resource call before that
  pure,        \* a pure function applied to an argument, and its result
  threads      \* the request threads that share the ingestor, and their locals

vars ==
  <<stats, db, dead, pc, resources, batch_size, i, j, ret, call, prev, pure, threads>>

-----------------------------------------------------------------------------
(* JSON / Python values *)

None == [t |-> "null"]

Str(s) == [t |-> "str", s |-> s]

Num(n) == [t |-> "num", n |-> n]

Obj(f) == [t |-> "obj", f |-> f]

Arr(a) == [t |-> "arr", a |-> a]

Raise == [t |-> "raise"]

EmptyDict == Obj(<<>>)

\* Python truthiness: bool(v)
Truthy(v) ==
  CASE v.t = "null" -> FALSE
    [] v.t = "str"  -> v.s # <<>>
    [] v.t = "num"  -> v.n # 0
    [] v.t = "obj"  -> DOMAIN v.f # {}
    [] v.t = "arr"  -> v.a # <<>>
    [] OTHER        -> FALSE

\* dict.get(key, default); raises AttributeError when o is not a dict
GetD(o, key, default) ==
  IF o.t # "obj" THEN Raise
  ELSE IF key \in DOMAIN o.f THEN o.f[key] ELSE default

\* dict.get(key)
Get(o, key) == GetD(o, key, None)

\* str.startswith(prefix) on token sequences
StartsWith(s, prefix) ==
  /\ Len(s) >= Len(prefix)
  /\ SubSeq(s, 1, Len(prefix)) = prefix

RECURSIVE FirstSlash(_, _)
\* index of the first "/" of s at or after position p; 0 when there is none
FirstSlash(s, p) ==
  IF p > Len(s) THEN 0
  ELSE IF s[p] = "/" THEN p
  ELSE FirstSlash(s, p + 1)

\* s.split('/', 1)[1]: everything after the first "/"
SplitAfterSlash(s) == SubSeq(s, FirstSlash(s, 1) + 1, Len(s))

-----------------------------------------------------------------------------
(* FHIRIngestor.SUPPORTED_RESOURCES *)

SupportedTypes ==
  { <<"Patient">>, <<"Observation">>, <<"Encounter">>, <<"Condition">>,
    <<"Procedure">>, <<"MedicationRequest">>, <<"DocumentReference">>,
    <<"AllergyIntolerance">>, <<"DiagnosticReport">> }

SUPPORTED_RESOURCES ==
  [ ty \in SupportedTypes |->
      CASE ty = <<"Patient">>            -> "patients"
        [] ty = <<"Observation">>        -> "observations"
        [] ty = <<"Encounter">>          -> "encounters"
        [] ty = <<"Condition">>          -> "conditions"
        [] ty = <<"Procedure">>          -> "procedures"
        [] ty = <<"MedicationRequest">>  -> "medication_requests"
        [] ty = <<"DocumentReference">>  -> "document_references"
        [] ty = <<"AllergyIntolerance">> -> "allergies"
        [] ty = <<"DiagnosticReport">>   -> "diagnostic_reports" ]

Collections == { SUPPORTED_RESOURCES[ty] : ty \in SupportedTypes }

\* a dict or a list is unhashable: "x in <dict>" raises TypeError for it
Unhashable(v) == v.t \in {"obj", "arr"}

\* mutant: every str is taken for a supported type
InSupported_any(v) == v.t = "str"

\* resource_type in self.SUPPORTED_RESOURCES, for a hashable value: a str is
\* looked up among the keys, any other value is no key
InSupported(v) == v.t = "str" /\ v.s \in SupportedTypes

-----------------------------------------------------------------------------
(* FHIRIngestor._get_nested_value *)

RECURSIVE GetNestedFrom(_, _, _)
GetNestedFrom(current, keys, k) ==
  IF k > Len(keys) THEN current
  ELSE IF current.t = "obj" /\ keys[k] \in DOMAIN current.f
       THEN GetNestedFrom(current.f[keys[k]], keys, k + 1)
       ELSE None

\* path is the result of path.split('.') on the dotted literal
get_nested_value(obj, path) == GetNestedFrom(obj, path, 1)

-----------------------------------------------------------------------------
(* FHIRIngestor.derive_patient_id *)

Continue == [t |-> "continue"]

\* mutant: patient.reference is looked at before subject.reference
reference_paths_swapped(resource_type) ==
  << <<"patient", "reference">>,
     <<"subject", "reference">>,
     IF resource_type = Str(<<"Encounter">>)
       THEN <<"encounter", "subject", "reference">>
       ELSE <<>> >>

\* mutant: encounter.subject.reference is a source of every type
reference_paths_always(resource_type) ==
  << <<"subject", "reference">>,
     <<"patient", "reference">>,
     <<"encounter", "subject", "reference">> >>

\* the three entries of reference_paths; <<>> stands for the None entry
reference_paths(resource_type) ==
  << <<"subject", "reference">>,
     <<"patient", "reference">>,
     IF resource_type = Str(<<"Encounter">>)
       THEN <<"encounter", "subject", "reference">>
       ELSE <<>> >>

\* mutant: the whole reference is returned, not the part after the slash
RefMatch_nosplit(ref) ==
  IF ~Truthy(ref) THEN Continue
  ELSE IF ref.t # "str" THEN Raise
  ELSE IF StartsWith(ref.s, <<"Patient", "/">>) THEN ref
  ELSE Continue

\* mutant: a reference without an id after the slash does not end the search
RefMatch_nonempty(ref) ==
  IF ~Truthy(ref) THEN Continue
  ELSE IF ref.t # "str" THEN Raise
  ELSE IF StartsWith(ref.s, <<"Patient", "/">>) /\ SplitAfterSlash(ref.s) # << >>
    THEN Str(SplitAfterSlash(ref.s))
  ELSE Continue

\* lines 139-140 for one looked-up value: the id, Continue, or Raise
\* (a truthy value that is no str has no startswith)
RefMatch(ref) ==
  IF ~Truthy(ref) THEN Continue
  ELSE IF ref.t # "str" THEN Raise
  ELSE IF StartsWith(ref.s, <<"Patient", "/">>) THEN Str(SplitAfterSlash(ref.s))
  ELSE Continue

RECURSIVE ScanPaths(_, _, _)
ScanPaths(resource, paths, k) ==
  IF k > Len(paths) THEN Continue
  ELSE IF paths[k] = <<>> THEN ScanPaths(resource, paths, k + 1)
  ELSE LET m == RefMatch(get_nested_value(resource, paths[k]))
       IN IF m = Continue THEN ScanPaths(resource, paths, k + 1) ELSE m

\* what "for x in v" yields, as a list: the elements of a list, the pieces
\* of a str, the keys of a dict (all str); Raise when v is not iterable
Iterate(v) ==
  CASE v.t = "arr" -> v
    [] v.t = "str" -> Arr([n \in 1..Len(v.s) |-> Str(<<v.s[n]>>)])
    [] v.t = "obj" -> Arr([n \in 1..Cardinality(DOMAIN v.f) |-> Str(<<"key">>)])
    [] OTHER       -> Raise

RECURSIVE ScanContained_first(_, _)
\* mutant: the scan ends at the first Patient, with or without an id
ScanContained_first(items, k) ==
  IF k > Len(items) THEN None
  ELSE LET rt == Get(items[k], "resourceType")
       IN IF rt = Raise THEN Raise
          ELSE IF rt = Str(<<"Patient">>)
               THEN Get(items[k], "id")
               ELSE ScanContained_first(items, k + 1)

RECURSIVE ScanContained(_, _)
ScanContained(items, k) ==
  IF k > Len(items) THEN None
  ELSE LET rt == Get(items[k], "resourceType")
       IN IF rt = Raise THEN Raise
          ELSE IF rt = Str(<<"Patient">>) /\ Truthy(Get(items[k], "id"))
               THEN Get(items[k], "id")
               ELSE ScanContained(items, k + 1)

derive_patient_id(resource) ==
  LET resource_type == Get(resource, "resourceType")
      m == ScanPaths(resource, reference_paths(resource_type), 1)
  IN IF m # Continue THEN m
     ELSE LET items == Iterate(GetD(resource, "contained", Arr(<<>>)))
          IN IF items = Raise THEN Raise ELSE ScanContained(items.a, 1)

-----------------------------------------------------------------------------
(* FHIRIngestor.validate_resource *)

Check(failed, message) == IF failed THEN << message >> ELSE << >>

\* mutant: the Observation checks are an if/elif chain that stops at the
\* first violation
TypeErrors_elif(resource, resource_type) ==
  CASE resource_type.s = <<"Patient">> ->
         Check(~Truthy(Get(resource, "name")), <<"Patient missing name">>)
    [] resource_type.s = <<"Observation">> ->
         IF ~Truthy(Get(resource, "status"))
           THEN << <<"Observation missing status">> >>
         ELSE IF ~Truthy(Get(resource, "code"))
           THEN << <<"Observation missing code">> >>
         ELSE Check(~(Truthy(Get(resource, "effectiveDateTime"))
                      \/ Truthy(Get(resource, "effectivePeriod"))),
                    <<"Observation missing effectiveDateTime or effectivePeriod">>)
    [] resource_type.s = <<"Encounter">> ->
         Check(~Truthy(Get(resource, "status")), <<"Encounter missing status">>)
    [] resource_type.s = <<"Condition">> ->
         Check(~Truthy(Get(resource, "code")), <<"Condition missing code">>)
    [] OTHER -> << >>

\* lines 186-206: the violations of the rules of one supported type, in order
TypeErrors(resource, resource_type) ==
  CASE resource_type.s = <<"Patient">> ->
         Check(~Truthy(Get(resource, "name")), <<"Patient missing name">>)
    [] resource_type.s = <<"Observation">> ->
         Check(~Truthy(Get(resource, "status")), <<"Observation missing status">>)
         \o Check(~Truthy(Get(resource, "code")), <<"Observation missing code">>)
         \o Check(~(Truthy(Get(resource, "effectiveDateTime"))
                    \/ Truthy(Get(resource, "effectivePeriod"))),
                  <<"Observation missing effectiveDateTime or effectivePeriod">>)
    [] resource_type.s = <<"Encounter">> ->
         Check(~Truthy(Get(resource, "status")), <<"Encounter missing status">>)
    [] resource_type.s = <<"Condition">> ->
         Check(~Truthy(Get(resource, "code")), <<"Condition missing code">>)
    [] OTHER -> << >>

\* str(v) inside the f-string of line 183
Format(v) == IF v.t = "str" THEN v.s ELSE <<"<repr>">>

Result(valid, errors) == [t |-> "ret", valid |-> valid, errors |-> errors]

\* mutant: validate_resource without the link check of lines 208-211
validate_resource_nolink(resource) ==
  LET resource_type == Get(resource, "resourceType")
      resource_id == Get(resource, "id")
  IN IF ~Truthy(resource_type)
       THEN Result(FALSE, << <<"Missing resourceType">> >>)
     ELSE IF ~Truthy(resource_id)
       THEN Result(FALSE, << <<"Missing id">> >>)
     ELSE IF Unhashable(resource_type)
       THEN Raise
     ELSE IF ~InSupported(resource_type)
       THEN Result(FALSE, << <<"Unsupported resourceType: ">> \o Format(resource_type) >>)
     ELSE LET errors == TypeErrors(resource, resource_type)
          IN Result(Len(errors) = 0, errors)

validate_resource(resource) ==
  LET resource_type == Get(resource, "resourceType")
      resource_id == Get(resource, "id")
  IN IF ~Truthy(resource_type)
       THEN Result(FALSE, << <<"Missing resourceType">> >>)
     ELSE IF ~Truthy(resource_id)
       THEN Result(FALSE, << <<"Missing id">> >>)
     ELSE IF Unhashable(resource_type)
       THEN Raise
     ELSE IF ~InSupported(resource_type)
       THEN Result(FALSE, << <<"Unsupported resourceType: ">> \o Format(resource_type) >>)
     ELSE LET errors == TypeErrors(resource, resource_type)
              patient_id == derive_patient_id(resource)
          IN IF patient_id = Raise THEN Raise
             ELSE LET all == errors \o Check(~Truthy(patient_id),
                                   <<"Cannot derive patientId from resource">>)
                  IN Result(Len(all) = 0, all)

-----------------------------------------------------------------------------
(* The store: pymongo's update_one(filter, {'$set': doc}, upsert=True) and    *)
(* insert_one, on collections that are lists of documents                     *)

\* the positions of the documents of coll that match {'resourceType', 'id'}
Matches(coll, resource_type, id) ==
  { k \in 1..Len(coll) : coll[k].resourceType = resource_type /\ coll[k].id = id }

Min(S) == CHOOSE x \in S : \A y \in S : x <= y

\* $set: every field of doc is written, every other field of old is kept
SetFields(old, doc) ==
  [ f \in DOMAIN old \cup DOMAIN doc |-> IF f \in DOMAIN doc THEN doc[f] ELSE old[f] ]

\* mutant: insert_one in the place of the upsert
update_one_insert(coll, resource_type, id, doc) ==
  [coll |-> Append(coll, doc), upserted |-> TRUE]

\* mutant: the upsert reports an insertion whatever it did
update_one_reports_insert(coll, resource_type, id, doc) ==
  LET m == Matches(coll, resource_type, id)
  IN IF m = {}
       THEN [coll |-> Append(coll, doc), upserted |-> TRUE]
       ELSE [coll |-> [coll EXCEPT ![Min(m)] = SetFields(@, doc)], upserted |-> TRUE]

\* update_one with upsert=True: the first match is updated in place, and
\* without a match one document is inserted; upserted says which
update_one(coll, resource_type, id, doc) ==
  LET m == Matches(coll, resource_type, id)
  IN IF m = {}
       THEN [coll |-> Append(coll, doc), upserted |-> TRUE]
       ELSE [coll |-> [coll EXCEPT ![Min(m)] = SetFields(@, doc)], upserted |-> FALSE]

-----------------------------------------------------------------------------
(* FHIRIngestor.__init__ *)

InitStats ==
  [processed |-> 0, inserted |-> 0, updated |-> 0, errors |-> 0, dead_letter |-> 0]

\* the ingestor's mutable state as one value
State(st, d, dl) == [stats |-> st, db |-> d, dead |-> dl]

Bump(S, counter) == [S EXCEPT !.stats[counter] = @ + 1]

-----------------------------------------------------------------------------
(* FHIRIngestor._store_dead_letter; insert_fails: insert_one raises.         *)
(* The entry's timestamp is left out: nothing reads it.                      *)

\* mutant: the entry is counted but never inserted
store_dead_letter_skip(S, resource, reason, details, insert_fails) ==
  IF insert_fails THEN S ELSE Bump(S, "dead_letter")

\* mutant: an entry for the same (resourceType, id) is overwritten
store_dead_letter_dedup(S, resource, reason, details, insert_fails) ==
  LET doc == [resourceType |-> Get(resource, "resourceType"),
              id |-> Get(resource, "id"),
              reason |-> reason,
              details |-> details,
              resource |-> resource]
      old == { k \in 1..Len(S.dead) :
                 S.dead[k].resourceType = doc.resourceType /\ S.dead[k].id = doc.id }
  IN IF insert_fails
       THEN S
       ELSE IF old = {}
         THEN Bump([S EXCEPT !.dead = Append(@, doc)], "dead_letter")
         ELSE Bump([S EXCEPT !.dead[Min(old)] = doc], "dead_letter")

\* mutant: the counter is incremented before the insert is tried
store_dead_letter_counted(S, resource, reason, details, insert_fails) ==
  LET doc == [resourceType |-> Get(resource, "resourceType"),
              id |-> Get(resource, "id"),
              reason |-> reason,
              details |-> details,
              resource |-> resource]
  IN IF insert_fails
       THEN Bump(S, "dead_letter")
       ELSE Bump([S EXCEPT !.dead = Append(@, doc)], "dead_letter")

\* mutant: a failed insert is tried again, and the second try succeeds
store_dead_letter_retry(S, resource, reason, details, insert_fails) ==
  LET doc == [resourceType |-> Get(resource, "resourceType"),
              id |-> Get(resource, "id"),
              reason |-> reason,
              details |-> details,
              resource |-> resource]
  IN Bump([S EXCEPT !.dead = Append(@, doc)], "dead_letter")

store_dead_letter(S, resource, reason, details, insert_fails) ==
  LET doc == [resourceType |-> Get(resource, "resourceType"),
              id |-> Get(resource, "id"),
              reason |-> reason,
              details |-> details,
              resource |-> resource]
  IN IF insert_fails
       THEN S
       ELSE Bump([S EXCEPT !.dead = Append(@, doc)], "dead_letter")

-----------------------------------------------------------------------------
(* FHIRIngestor.process_resource                                             *)

\* the fields copied by resource.get(...) in lines 257-265
TopFields ==
  { "status", "code", "category", "effectiveDateTime", "issued",
    "occurrenceDateTime", "onsetDateTime", "authoredOn", "recordedDate" }

\* mutant: the embedded resource has lost its meta
BaseDoc_stripped(resource, patient_id, meta) ==
  [ f \in {"resourceType", "id", "patientId", "resource", "meta"} \cup TopFields |->
      CASE f = "resourceType" -> resource.f["resourceType"]
        [] f = "id"           -> resource.f["id"]
        [] f = "patientId"    -> patient_id
        [] f = "resource"     -> Obj([k \in DOMAIN resource.f \ {"meta"} |-> resource.f[k]])
        [] f = "meta"         -> Obj([versionId |-> Get(meta, "versionId"),
                                      lastUpdated |-> Get(meta, "lastUpdated")])
        [] OTHER              -> Get(resource, f) ]

\* lines 245-266; 'meta.versionId' and 'meta.lastUpdated' are the two fields
\* of the stored sub-document meta
BaseDoc(resource, patient_id, meta) ==
  [ f \in {"resourceType", "id", "patientId", "resource", "meta"} \cup TopFields |->
      CASE f = "resourceType" -> resource.f["resourceType"]
        [] f = "id"           -> resource.f["id"]
        [] f = "patientId"    -> patient_id
        [] f = "resource"     -> resource
        [] f = "meta"         -> Obj([versionId |-> Get(meta, "versionId"),
                                      lastUpdated |-> Get(meta, "lastUpdated")])
        [] OTHER              -> Get(resource, f) ]

\* lines 269-271: the document with encounterId added when the reference matches
WithEncounter(doc, encounter_ref) ==
  IF Truthy(encounter_ref) /\ StartsWith(encounter_ref.s, <<"Encounter", "/">>)
    THEN [ f \in DOMAIN doc \cup {"encounterId"} |->
             IF f = "encounterId" THEN Str(SplitAfterSlash(encounter_ref.s)) ELSE doc[f] ]
    ELSE doc

Returned(S, value) == [stats |-> S.stats, db |-> S.db, dead |-> S.dead, ret |-> value]

\* mutant: the failing upsert has written the document before it raises
Upsert_partial(S, resource, doc, upsert_fails, insert_fails) ==
  LET collection_name == SUPPORTED_RESOURCES[resource.f["resourceType"].s]
      result == update_one(S.db[collection_name],
                           resource.f["resourceType"], resource.f["id"], doc)
      S2 == [S EXCEPT !.db[collection_name] = result.coll]
  IN IF upsert_fails
       THEN Returned(Bump(store_dead_letter(S2, resource, "storage_error",
                                            << <<"error">> >>, insert_fails),
                          "errors"), "False")
       ELSE Returned(Bump(S2, IF result.upserted THEN "inserted" ELSE "updated"),
                     "True")

\* mutant: a failed upsert is attempted a second time, and that attempt succeeds
Upsert_retry(S, resource, doc, upsert_fails, insert_fails) ==
  LET collection_name == SUPPORTED_RESOURCES[resource.f["resourceType"].s]
      result == update_one(S.db[collection_name],
                           resource.f["resourceType"], resource.f["id"], doc)
      S2 == [S EXCEPT !.db[collection_name] = result.coll]
  IN Returned(Bump(S2, IF result.upserted THEN "inserted" ELSE "updated"), "True")

\* mutant: every document goes to the collection of the Patients
Upsert_misrouted(S, resource, doc, upsert_fails, insert_fails) ==
  LET collection_name == "patients"
  IN IF upsert_fails
       THEN Returned(Bump(store_dead_letter(S, resource, "storage_error",
                                            << <<"error">> >>, insert_fails),
                          "errors"), "False")
       ELSE LET result == update_one(S.db[collection_name],
                                     resource.f["resourceType"], resource.f["id"], doc)
                S2 == [S EXCEPT !.db[collection_name] = result.coll]
            IN Returned(Bump(S2, IF result.upserted THEN "inserted" ELSE "updated"),
                        "True")

\* lines 273-293: the upsert and its exception handler
Upsert(S, resource, doc, upsert_fails, insert_fails) ==
  LET collection_name == SUPPORTED_RESOURCES[resource.f["resourceType"].s]
  IN IF upsert_fails
       THEN Returned(Bump(store_dead_letter(S, resource, "storage_error",
                                            << <<"error">> >>, insert_fails),
                          "errors"), "False")
       ELSE LET result == update_one(S.db[collection_name],
                                     resource.f["resourceType"], resource.f["id"], doc)
                S2 == [S EXCEPT !.db[collection_name] = result.coll]
            IN Returned(Bump(S2, IF result.upserted THEN "inserted" ELSE "updated"),
                        "True")

\* lines 240-271: the document is built; meta.get and encounter.get raise on
\* a value that is no dict, startswith on a truthy value that is no str
Project(S, resource, patient_id, upsert_fails, insert_fails) ==
  LET meta == GetD(resource, "meta", EmptyDict)
      encounter == GetD(resource, "encounter", EmptyDict)
      encounter_ref == Get(encounter, "reference")
  IN IF meta.t # "obj" \/ encounter.t # "obj" THEN Returned(S, "raise")
     ELSE IF Truthy(encounter_ref) /\ encounter_ref.t # "str" THEN Returned(S, "raise")
     ELSE Upsert(S, resource,
                 WithEncounter(BaseDoc(resource, patient_id, meta), encounter_ref),
                 upsert_fails, insert_fails)

\* the whole of process_resource on state S: the state after it and what it
\* returned ("True", "False") or "raise" when an exception leaves it
process_resource(S, resource, upsert_fails, insert_fails) ==
  LET S1 == Bump(S, "processed")
      v == validate_resource(resource)
  IN IF v = Raise THEN Returned(S1, "raise")
     ELSE IF ~v.valid
       THEN Returned(Bump(store_dead_letter(S1, resource, "validation_error",
                                            v.errors, insert_fails),
                          "errors"), "False")
     ELSE LET patient_id == derive_patient_id(resource)
          IN IF patient_id = Raise THEN Returned(S1, "raise")
             ELSE IF ~Truthy(patient_id)
               THEN Returned(Bump(store_dead_letter(S1, resource, "no_patient_reference",
                                                    << >>, insert_fails),
                                  "errors"), "False")
             ELSE Project(S1, resource, patient_id, upsert_fails, insert_fails)

-----------------------------------------------------------------------------
(* Resources fed to the pipeline *)

Absent == [t |-> "absent"]

ResourceKeys ==
  { "resourceType", "id", "name", "status", "code", "effectiveDateTime",
    "effectivePeriod", "subject", "patient", "encounter", "contained", "meta" }

NoFields == [k \in ResourceKeys |-> Absent]

\* the JSON object that holds the fields that are not Absent
Resource(fields) ==
  Obj([k \in {x \in DOMAIN fields : fields[x] # Absent} |-> fields[k]])

Word(w) == Str(<<w>>)

Reference(r) == Obj([reference |-> r])

PatientRef(id) == Reference(Str(<<"Patient", "/", id>>))

Clinical(type, id) ==
  [NoFields EXCEPT !["resourceType"] = Word(type),
                   !["id"] = Word(id),
                   !["status"] = Word("final"),
                   !["code"] = Obj([text |-> Word("c")]),
                   !["effectiveDateTime"] = Word("2023-01-01T00:00:00Z")]

\* {resourceType: Patient, id: p1, name: [{family: Doe}]}
Patient_p1 ==
  Resource([NoFields EXCEPT !["resourceType"] = Word("Patient"),
                            !["id"] = Word("p1"),
                            !["name"] = Arr(<<Obj([family |-> Word("Doe")])>>)])

\* a complete Observation o1 of Patient/p1
Observation_o1 ==
  Resource([Clinical("Observation", "o1") EXCEPT !["subject"] = PatientRef("p1")])

\* another version of o1: it names its encounter and has a meta object
Observation_o1_enc ==
  Resource([Clinical("Observation", "o1") EXCEPT
              !["subject"] = PatientRef("p1"),
              !["encounter"] = Reference(Str(<<"Encounter", "/", "e1">>)),
              !["meta"] = Obj([versionId |-> Word("2")])])

\* an Observation without status and code
Observation_bad ==
  Resource([Clinical("Observation", "o2") EXCEPT
              !["status"] = Absent, !["code"] = Absent,
              !["subject"] = PatientRef("p1")])

\* a complete Observation whose meta is a string
Observation_meta ==
  Resource([Clinical("Observation", "o3") EXCEPT
              !["subject"] = PatientRef("p1"), !["meta"] = Word("x")])

\* a complete Observation whose subject.reference is the number 5
Observation_num ==
  Resource([Clinical("Observation", "o4") EXCEPT !["subject"] = Reference(Num(5))])

\* subject.reference is exactly "Patient/", patient.reference names p1
Observation_slash ==
  Resource([Clinical("Observation", "o5") EXCEPT
              !["subject"] = Reference(Str(<<"Patient", "/">>)),
              !["patient"] = PatientRef("p1")])

\* a Condition linked only by a contained Patient
Condition_c1 ==
  Resource([Clinical("Condition", "c1") EXCEPT
              !["contained"] = Arr(<<Obj([resourceType |-> Word("Patient"),
                                          id |-> Word("p9")])>>)])

\* a complete Condition with no patient link at all
Condition_nolink == Resource(Clinical("Condition", "c2"))

\* an Encounter that carries the link at encounter.subject.reference
Encounter_e1 ==
  Resource([Clinical("Encounter", "e1") EXCEPT
              !["encounter"] = Obj([subject |-> PatientRef("p1")])])

\* an unsupported type
Medication_m1 ==
  Resource([Clinical("Medication", "m1") EXCEPT !["subject"] = PatientRef("p1")])

\* no id
Observation_noid ==
  Resource([Clinical("Observation", "o6") EXCEPT
              !["id"] = Absent, !["subject"] = PatientRef("p1")])

\* no resourceType
NoType ==
  Resource([Clinical("Observation", "o7") EXCEPT
              !["resourceType"] = Absent, !["subject"] = PatientRef("p1")])

PipelineResources ==
  { Patient_p1, Observation_o1, Observation_o1_enc, Observation_bad,
    Observation_meta, Observation_num, Condition_c1, Condition_nolink, NoType }

-----------------------------------------------------------------------------
(* Resources given to the pure functions: every combination of the options *)

RefValues ==
  { None, Str(<< >>), Num(5),
    Str(<<"Patient", "/">>), Str(<<"Patient", "/", "p1">>),
    Str(<<"Patient", "/", "p1", "/", "_history">>),
    Str(<<"patient", "/", "p1">>), Str(<<"Encounter", "/", "e1">>),
    Str(<<"http:", "/", "/", "host", "/", "Patient", "/", "p1">>) }

SubjectOptions ==
  { Absent, None, Word("s"), EmptyDict } \cup { Reference(v) : v \in RefValues }

PatientOptions ==
  { Absent, PatientRef("p2"), Reference(Num(5)), Reference(Str(<<"Patient", "/">>)) }

EncounterOptions ==
  { Absent, Word("e"), Reference(Str(<<"Encounter", "/", "e1">>)),
    Obj([subject |-> PatientRef("p3")]) }

Contained(type, id) == Obj([resourceType |-> Word(type), id |-> id])

ContainedOptions ==
  { Absent, None, Arr(<< >>), Str(<< >>),
    Arr(<<Contained("Patient", Word("p9"))>>),
    Arr(<<Contained("Observation", Word("o9")), Contained("Patient", Word("p9"))>>),
    Arr(<<Contained("Patient", Str(<< >>)), Contained("Patient", Word("p8"))>>),
    Arr(<<Obj([resourceType |-> Word("Patient")]), Word("s")>>),
    Arr(<<Word("s"), Contained("Patient", Word("p9"))>>) }

DeriveInputs ==
  { Resource([Clinical(type, "x1") EXCEPT
                !["subject"] = s, !["patient"] = p,
                !["encounter"] = e, !["contained"] = c]) :
      type \in {"Observation", "Encounter"}, s \in SubjectOptions,
      p \in PatientOptions, e \in EncounterOptions, c \in ContainedOptions }

TypeOptions ==
  { Absent, None, Str(<< >>), Num(5), Arr(<<Word("Patient")>>), Word("Medication"),
    Word("Patient"), Word("Observation"), Word("Encounter"), Word("Condition"),
    Word("Procedure") }

IdOptions == { Absent, Str(<< >>), Word("x1") }

Maybe(v) == { Absent, v }

LinkOptions ==
  { [subject |-> PatientRef("p1"), contained |-> Absent],
    [subject |-> Absent, contained |-> Absent],
    [subject |-> Reference(Num(5)), contained |-> Absent],
    [subject |-> Absent, contained |-> None] }

ValidateInputs ==
  { Resource([NoFields EXCEPT
                !["resourceType"] = type, !["id"] = id, !["name"] = name,
                !["status"] = status, !["code"] = code,
                !["effectiveDateTime"] = dt, !["effectivePeriod"] = period,
                !["subject"] = link.subject, !["contained"] = link.contained]) :
      type \in TypeOptions, id \in IdOptions,
      name \in Maybe(Arr(<<Obj([family |-> Word("Doe")])>>)),
      status \in Maybe(Word("final")), code \in Maybe(Obj([text |-> Word("c")])),
      dt \in Maybe(Word("2023-01-01T00:00:00Z")),
      period \in Maybe(Obj([start |-> Word("2023")])),
      link \in LinkOptions }

PureInputs ==
  DeriveInputs \cup ValidateInputs
    \cup { Observation_slash, Encounter_e1, Medication_m1, Observation_noid }
    \cup PipelineResources

-----------------------------------------------------------------------------
(* Bounds *)

\* process_resource calls in one behaviour (caps the counters)
MaxCalls == 2

\* length of the list given to process_batch
MaxBatch == 2

\* process_batch's default batch_size
DefaultBatchSize == 500

BatchSizes == {-1, 0, 1, DefaultBatchSize}

\* the lists of at most n resources
Lists(n) == UNION { [1..k -> PipelineResources] : k \in 0..n }

-----------------------------------------------------------------------------
(* FHIRIngestor.process_batch *)

NoCall == [t |-> "none"]

NoReturn == [t |-> "none"]

NoPure == [fn |-> "none"]

\* no request thread is running
NoThreads == << >>

\* i in range(0, len(resources), batch_size), for batch_size # 0
InRange(x, n, step) == IF step > 0 THEN x < n ELSE x > n

\* mutant: a full chunk loses its last element
Slice_short(list, from, size) ==
  SubSeq(list, from + 1, IF from + size <= Len(list) THEN from + size - 1 ELSE Len(list))

\* resources[i:i + batch_size] for 0 <= i <= len(resources), batch_size > 0
Slice(list, from, size) ==
  SubSeq(list, from + 1, IF from + size < Len(list) THEN from + size ELSE Len(list))

Init ==
  /\ stats = InitStats
  /\ db = [c \in Collections |-> << >>]
  /\ dead = << >>
  /\ pc = "idle"
  /\ resources = << >>
  /\ batch_size = DefaultBatchSize
  /\ i = 0
  /\ j = 0
  /\ ret = NoReturn
  /\ call = NoCall
  /\ prev = NoCall
  /\ pure = NoPure
  /\ threads = NoThreads

\* process_batch is left: its locals are gone
Leave ==
  /\ pc' = "idle"
  /\ resources' = << >>
  /\ batch_size' = DefaultBatchSize
  /\ i' = 0
  /\ j' = 0

\* an exception left process_batch after it had called process_resource on
\* the first `done` of its n resources
Raised(n, done) == [t |-> "raise", n |-> n, done |-> done]

\* process_batch returned a copy of the counters after it had called
\* process_resource on `done` of its n resources
Returns(counters, n, done) == [t |-> "stats", stats |-> counters, n |-> n, done |-> done]

\* process_batch is entered; range() raises ValueError for a step of 0
BatchStart(list, size) ==
  /\ pc = "idle"
  /\ IF size = 0
       THEN Leave /\ ret' = Raised(Len(list), 0)
       ELSE /\ pc' = "batch"
            /\ resources' = list
            /\ batch_size' = size
            /\ i' = 0
            /\ j' = 0
            /\ ret' = NoReturn
  /\ UNCHANGED <<stats, db, dead, call, prev, pure, threads>>

\* one pass of the inner loop: process_resource on the next element of the
\* chunk; an exception leaves process_batch, otherwise the loops advance
BatchStep(upsert_fails, insert_fails) ==
  /\ pc = "batch"
  /\ InRange(i, Len(resources), batch_size)
  /\ LET batch == Slice(resources, i, batch_size)
         resource == batch[j + 1]
         r == process_resource(State(stats, db, dead), resource,
                               upsert_fails, insert_fails)
     IN /\ stats' = r.stats
        /\ db' = r.db
        /\ dead' = r.dead
        /\ call' = [t |-> "call", resource |-> resource, ret |-> r.ret,
                    before |-> State(stats, db, dead),
                    upsert_fails |-> upsert_fails, insert_fails |-> insert_fails]
        /\ prev' = call
        /\ IF r.ret = "raise"
             THEN Leave /\ ret' = Raised(Len(resources), i + j + 1)
             ELSE /\ UNCHANGED <<pc, ret, resources, batch_size>>
                  /\ IF j + 1 < Len(batch)
                       THEN j' = j + 1 /\ i' = i
                       ELSE j' = 0 /\ i' = i + batch_size
  /\ UNCHANGED <<pure, threads>>

\* the outer loop is over: return self.stats.copy()
BatchReturn ==
  /\ pc = "batch"
  /\ ~InRange(i, Len(resources), batch_size)
  /\ Leave
  /\ ret' = Returns(stats, Len(resources), IF batch_size > 0 THEN Len(resources) ELSE 0)
  /\ UNCHANGED <<stats, db, dead, call, prev, pure, threads>>

Next ==
  \/ \E list \in Lists(IF MaxCalls - stats.processed < MaxBatch
                         THEN MaxCalls - stats.processed ELSE MaxBatch),
          size \in BatchSizes : BatchStart(list, size)
  \/ \E upsert_fails \in BOOLEAN, insert_fails \in BOOLEAN :
       BatchStep(upsert_fails, insert_fails)
  \/ BatchReturn

Spec == Init /\ [][Next]_vars

-----------------------------------------------------------------------------
(* The pure functions on their own: one resource, one application *)

InitPure ==
  /\ stats = InitStats
  /\ db = [c \in Collections |-> << >>]
  /\ dead = << >>
  /\ pc = "idle"
  /\ resources = << >>
  /\ batch_size = DefaultBatchSize
  /\ i = 0
  /\ j = 0
  /\ ret = NoReturn
  /\ call = NoCall
  /\ prev = NoCall
  /\ pure \in { [fn |-> "none", arg |-> r] : r \in PureInputs }
  /\ threads = NoThreads

Apply(fn, out) ==
  /\ pure.fn = "none"
  /\ pure' = [fn |-> fn, arg |-> pure.arg, out |-> out]
  /\ UNCHANGED <<stats, db, dead, pc, resources, batch_size, i, j, ret, call, prev,
                 threads>>

CallValidate == Apply("validate_resource", validate_resource(pure.arg))

CallDerive == Apply("derive_patient_id", derive_patient_id(pure.arg))

NextPure == CallValidate \/ CallDerive

SpecPure == InitPure /\ [][NextPure]_vars

-----------------------------------------------------------------------------
(* Two /ingest requests served at once.  app.run serves every request in a   *)
(* thread of its own, and each thread calls process_batch of the one         *)
(* module-level ingestor.  A thread switch can fall between any two accesses *)
(* to what the threads share: self.stats[c] += 1 is a read and a later       *)
(* write, a store operation is one step.  What a thread does between two     *)
(* shared accesses (validation, building the document) is its own, and is    *)
(* taken with the access that follows.                                       *)

\* the request threads
Threads == {1, 2}

\* length of the list one request posts
MaxRequest == 1

\* the resources the requests post: a valid one, which all threads store
\* under the one key, and an invalid one
ConcResources == { Observation_o1, Observation_bad }

ConcLists == UNION { [1..n -> ConcResources] : n \in 0..MaxRequest }

\* a thread that serves no request: pc is where it stands, k the number of
\* its resources that are done, todo the counters the running
\* process_resource call has still to increment before its next store
\* operation or its end, reg the counter value it has read, stored whether
\* the call has done its store operation; entry, ret and outcomes record
\* the counters it found, the statistics it returned and what each of its
\* store operations did
IdleThread ==
  [pc |-> "idle", resources |-> << >>, k |-> 0, todo |-> << >>, reg |-> 0,
   stored |-> FALSE, entry |-> InitStats, ret |-> InitStats, outcomes |-> << >>]

InitConc ==
  /\ stats = InitStats
  /\ db = [c \in Collections |-> << >>]
  /\ dead = << >>
  /\ pc = "idle"
  /\ resources = << >>
  /\ batch_size = DefaultBatchSize
  /\ i = 0
  /\ j = 0
  /\ ret = NoReturn
  /\ call = NoCall
  /\ prev = NoCall
  /\ pure = NoPure
  /\ threads = [t \in Threads |-> IdleThread]

\* the loops of process_batch with `done` resources behind them: the next
\* process_resource call begins with self.stats['processed'] += 1; after the
\* last one comes the return statement
Proceed(th, done) ==
  IF done < Len(th.resources)
    THEN [th EXCEPT !.pc = "load", !.k = done, !.todo = <<"processed">>, !.stored = FALSE]
    ELSE [th EXCEPT !.pc = "return", !.k = done, !.todo = << >>, !.stored = FALSE]

\* ingest_resources has read a list and calls ingestor.process_batch(data)
Enter(t, list) ==
  /\ threads[t].pc = "idle"
  /\ threads' = [threads EXCEPT
                   ![t] = Proceed([@ EXCEPT !.resources = list, !.entry = stats], 0)]
  /\ UNCHANGED <<stats, db, dead, pc, resources, batch_size, i, j, ret, call, prev, pure>>

\* self.stats[c] += 1, first half: the counter is read
Load(t) ==
  /\ threads[t].pc = "load"
  /\ threads' = [threads EXCEPT ![t].reg = stats[Head(threads[t].todo)],
                                ![t].pc = "add"]
  /\ UNCHANGED <<stats, db, dead, pc, resources, batch_size, i, j, ret, call, prev, pure>>

\* self.stats[c] += 1, second half: the value read, plus one, is written
Add(t) ==
  /\ threads[t].pc = "add"
  /\ LET th == threads[t]
         rest == Tail(th.todo)
         th2 == [th EXCEPT !.todo = rest, !.reg = 0]
     IN /\ stats' = [stats EXCEPT ![Head(th.todo)] = th.reg + 1]
        /\ threads' = [threads EXCEPT ![t] =
                         IF rest # << >> THEN [th2 EXCEPT !.pc = "load"]
                         ELSE IF ~th.stored THEN [th2 EXCEPT !.pc = "store"]
                         ELSE Proceed(th2, th.k + 1)]
  /\ UNCHANGED <<db, dead, pc, resources, batch_size, i, j, ret, call, prev, pure>>

\* the store operation of the running call, on the store as it is now:
\* update_one for a resource found valid, insert_one into dead_fhir for one
\* found invalid; the counters that process_resource increments after it
\* are still to do, in the order of the code
Store(t) ==
  /\ threads[t].pc = "store"
  /\ LET th == threads[t]
         resource == th.resources[th.k + 1]
         r == process_resource(State(stats, db, dead), resource, FALSE, FALSE)
         Counted(c) == r.stats[c] # stats[c]
         counted == SelectSeq(<<"inserted", "updated", "dead_letter", "errors">>, Counted)
     IN /\ db' = r.db
        /\ dead' = r.dead
        /\ threads' = [threads EXCEPT ![t] =
                         [th EXCEPT !.pc = "load", !.todo = counted, !.stored = TRUE,
                                    !.outcomes = Append(@, [resource |-> resource,
                                                            outcome |-> Head(counted)])]]
  /\ UNCHANGED <<stats, pc, resources, batch_size, i, j, ret, call, prev, pure>>

\* return self.stats.copy()
Return(t) ==
  /\ threads[t].pc = "return"
  /\ threads' = [threads EXCEPT ![t].pc = "done", ![t].ret = stats]
  /\ UNCHANGED <<stats, db, dead, pc, resources, batch_size, i, j, ret, call, prev, pure>>

NextConc ==
  \E t \in Threads :
    \/ \E list \in ConcLists : Enter(t, list)
    \/ Load(t)
    \/ Add(t)
    \/ Store(t)
    \/ Return(t)

SpecConc == InitConc /\ [][NextConc]_vars

-----------------------------------------------------------------------------
(* ingest_resources, the handler of POST /ingest, around process_batch.      *)
(* Its try block ends in one of four ways: get_json raised, the body was no  *)
(* list, process_batch returned, process_batch raised.  ret records which;   *)
(* Response is the answer the handler makes of it.                           *)

\* a body that is not JSON: request.get_json() raises BadRequest on it
Unparsable == [t |-> "unparsable"]

\* what a client posts: lists of at most n resources, JSON values that are
\* no list (null, a string, a number, one resource), and a body that is not
\* JSON
Bodies(n) ==
  { Arr(list) : list \in Lists(n) }
    \cup { None, Word("x"), Num(5), Observation_o1, Unparsable }

\* request.get_json() raised: the except clause is entered with nothing done
GetJsonRaised(S, last) == [t |-> "get_json", before |-> S, last |-> last]

\* isinstance(data, list) is false: the handler returns with nothing done
NotList(S, last) == [t |-> "not_list", before |-> S, last |-> last]

\* the answer of ingest_resources, from how its try block ended
Response(end) ==
  CASE end.t = "stats" ->
         [status |-> 200,
          body |-> [status |-> "success", processed |-> end.stats.processed,
                    inserted |-> end.stats.inserted, updated |-> end.stats.updated,
                    errors |-> end.stats.errors]]
    [] end.t = "not_list" ->
         [status |-> 400, body |-> [error |-> "Expected array of FHIR resources"]]
    [] OTHER ->
         [status |-> 500, body |-> [error |-> "str(e)"]]

\* a request arrives: the body is parsed and tested, and a list is given to
\* process_batch with the default batch_size
HttpRequest(body) ==
  /\ pc = "idle"
  /\ IF body.t = "unparsable"
       THEN /\ Leave
            /\ ret' = GetJsonRaised(State(stats, db, dead), call)
            /\ UNCHANGED <<stats, db, dead, call, prev, pure, threads>>
       ELSE IF body.t # "arr"
         THEN /\ Leave
              /\ ret' = NotList(State(stats, db, dead), call)
              /\ UNCHANGED <<stats, db, dead, call, prev, pure, threads>>
         ELSE BatchStart(body.a, DefaultBatchSize)

NextHttp ==
  \/ \E body \in Bodies(IF MaxCalls - stats.processed < MaxBatch
                           THEN MaxCalls - stats.processed ELSE MaxBatch) :
       HttpRequest(body)
  \/ \E upsert_fails \in BOOLEAN, insert_fails \in BOOLEAN :
       BatchStep(upsert_fails, insert_fails)
  \/ BatchReturn

SpecHttp == Init /\ [][NextHttp]_vars

-----------------------------------------------------------------------------
(* process_batch as one function of the state it finds, for the claims that  *)
(* compare whole runs: the same two loops, run to their end.  A run is the   *)
(* state so far, the resources process_resource was called on so far, in     *)
(* order, and whether a call has raised.                                     *)

RECURSIVE ForEach(_, _, _, _, _)
\* for resource in batch: self.process_resource(resource), from batch[k] on
ForEach(run, batch, k, upsert_fails, insert_fails) ==
  IF run.raised \/ k > Len(batch) THEN run
  ELSE LET r == process_resource(run.state, batch[k], upsert_fails, insert_fails)
       IN ForEach([state |-> State(r.stats, r.db, r.dead),
                   calls |-> Append(run.calls, batch[k]),
                   raised |-> r.ret = "raise"],
                  batch, k + 1, upsert_fails, insert_fails)

RECURSIVE ForChunks(_, _, _, _, _, _)
\* for i in range(from, len(resources), batch_size), for batch_size # 0
ForChunks(run, list, from, size, upsert_fails, insert_fails) ==
  IF run.raised \/ ~InRange(from, Len(list), size) THEN run
  ELSE ForChunks(ForEach(run, Slice(list, from, size), 1, upsert_fails, insert_fails),
                 list, from + size, size, upsert_fails, insert_fails)

\* mutant: a batch_size below 1 is taken as 1
process_batch_clamped(S, list, size, upsert_fails, insert_fails) ==
  LET run == ForChunks([state |-> S, calls |-> << >>, raised |-> FALSE],
                       list, 0, IF size < 1 THEN 1 ELSE size,
                       upsert_fails, insert_fails)
  IN IF run.raised
       THEN [t |-> "raise", state |-> run.state, calls |-> run.calls]
       ELSE [t |-> "stats", stats |-> run.state.stats,
             state |-> run.state, calls |-> run.calls]

\* process_batch(list, size) on state S: what it returned or that it raised,
\* the state it left and the calls it made; range() raises for a step of 0
process_batch(S, list, size, upsert_fails, insert_fails) ==
  IF size = 0
    THEN [t |-> "raise", state |-> S, calls |-> << >>]
    ELSE LET run == ForChunks([state |-> S, calls |-> << >>, raised |-> FALSE],
                              list, 0, size, upsert_fails, insert_fails)
         IN IF run.raised
              THEN [t |-> "raise", state |-> run.state, calls |-> run.calls]
              ELSE [t |-> "stats", stats |-> run.state.stats,
                    state |-> run.state, calls |-> run.calls]

\* the batch sizes the runs are compared for
ChunkSizes == BatchSizes \cup {2}

\* a list, two batch sizes, and a store that fails every upsert or none and
\* every dead-letter insert or none
ChunkInputs ==
  { [resources |-> list, a |-> a, b |-> b, upsert_fails |-> u, insert_fails |-> f] :
      list \in Lists(MaxBatch), a \in ChunkSizes, b \in ChunkSizes,
      u \in BOOLEAN, f \in BOOLEAN }

InitChunk ==
  /\ stats = InitStats
  /\ db = [c \in Collections |-> << >>]
  /\ dead = << >>
  /\ pc = "idle"
  /\ resources = << >>
  /\ batch_size = DefaultBatchSize
  /\ i = 0
  /\ j = 0
  /\ ret = NoReturn
  /\ call = NoCall
  /\ prev = NoCall
  /\ pure \in { [fn |-> "none", arg |-> x] : x \in ChunkInputs }
  /\ threads = NoThreads

\* the list is processed twice from the same state, once with each size
CallBatch ==
  Apply("process_batch",
        << process_batch(State(stats, db, dead), pure.arg.resources, pure.arg.a,
                         pure.arg.upsert_fails, pure.arg.insert_fails),
           process_batch(State(stats, db, dead), pure.arg.resources, pure.arg.b,
                         pure.arg.upsert_fails, pure.arg.insert_fails) >>)

NextChunk == CallBatch

SpecChunk == InitChunk /\ [][NextChunk]_vars

-----------------------------------------------------------------------------
(* What the claims speak of *)

\* a process_resource call has been made; `call` describes the last one and
\* stats, db, dead are the state it left
Called == call.t = "call"

\* the state the call before the last one left is the state the last one found
TwoCalls == Called /\ prev.t = "call"

\* the resources fed to the pipeline that validate_resource accepts
ValidResources ==
  { r \in PipelineResources : validate_resource(r) = Result(TRUE, << >>) }

\* those for which validate_resource returns invalid
InvalidResources ==
  { r \in PipelineResources :
      validate_resource(r) # Raise /\ ~validate_resource(r).valid }

\* validate_resource accepts the resource (one of PipelineResources)
IsValid(resource) == resource \in ValidResources

\* validate_resource returns invalid for the resource (one of PipelineResources)
IsInvalid(resource) == resource \in InvalidResources

\* the documents (over all type collections) stored under the resource's key
DocsFor(d, resource) ==
  { <<c, k>> \in { <<c, k>> \in Collections \X (1..MaxCalls + 1) : k <= Len(d[c]) } :
      /\ d[c][k].resourceType = Get(resource, "resourceType")
      /\ d[c][k].id = Get(resource, "id") }

\* all stored documents
AllDocs(d) == UNION { { d[c][k] : k \in 1..Len(d[c]) } : c \in Collections }

-----------------------------------------------------------------------------
\* C1: Idempotence. When process_resource is called twice in a row with the
\* same valid resource, no document being stored under its key before the
\* first call, and both calls complete their upsert (return True), then
\* exactly one document is stored under the key, the first call added one to
\* 'inserted' and left 'updated', the second added one to 'updated' and left
\* 'inserted'.
C1_Idempotence ==
  ( /\ TwoCalls
    /\ prev.resource = call.resource
    /\ prev.ret = "True" /\ call.ret = "True"
    /\ IsValid(call.resource)
    /\ DocsFor(prev.before.db, call.resource) = {} )
  => /\ Cardinality(DocsFor(db, call.resource)) = 1
     /\ call.before.stats.inserted = prev.before.stats.inserted + 1
     /\ call.before.stats.updated = prev.before.stats.updated
     /\ stats.updated = call.before.stats.updated + 1
     /\ stats.inserted = call.before.stats.inserted

C1_Witness ==
  /\ TwoCalls
  /\ prev.resource = Observation_o1 /\ call.resource = Observation_o1
  /\ prev.ret = "True" /\ call.ret = "True"
  /\ prev.before.db["observations"] = << >>
  /\ Len(db["observations"]) = 1
  /\ stats.inserted = 1 /\ stats.updated = 1

\* C2: End-to-end scenario. From the empty store with fresh statistics,
\* ingesting Patient p1 (name, no reference, nothing contained) and then
\* Observation o1 of Patient/p1, the store accepting every write, leaves one
\* document in patients and one in observations, both with patientId "p1",
\* inserted = 2 and errors = 0.
C2_EndToEnd ==
  ( /\ TwoCalls
    /\ prev.before = State(InitStats, [c \in Collections |-> << >>], << >>)
    /\ prev.resource = Patient_p1 /\ call.resource = Observation_o1
    /\ ~prev.upsert_fails /\ ~prev.insert_fails
    /\ ~call.upsert_fails /\ ~call.insert_fails )
  => /\ Len(db["patients"]) = 1 /\ Len(db["observations"]) = 1
     /\ db["patients"][1].patientId = Word("p1")
     /\ db["observations"][1].patientId = Word("p1")
     /\ stats.inserted = 2 /\ stats.errors = 0

\* C3 as claimed: a call with a resource that validate_resource finds invalid
\* adds exactly one dead-letter entry, adds one to 'processed', and leaves
\* 'inserted', 'updated' and every type collection as they were.
C3_DeadLetterAlways ==
  (Called /\ IsInvalid(call.resource))
  => /\ Len(dead) = Len(call.before.dead) + 1
     /\ stats.processed = call.before.stats.processed + 1
     /\ stats.inserted = call.before.stats.inserted
     /\ stats.updated = call.before.stats.updated
     /\ db = call.before.db

\* C3 as amended: such a call adds exactly one dead-letter entry, which
\* holds that resource, unless the insert into the dead-letter collection
\* fails, and then it adds none; in both cases 'processed' grows by one and
\* 'inserted', 'updated' and every type collection stay as they were.
C3_DeadLetterCompleteness ==
  (Called /\ IsInvalid(call.resource))
  => /\ IF call.insert_fails
          THEN dead = call.before.dead
          ELSE /\ Len(dead) = Len(call.before.dead) + 1
               /\ SubSeq(dead, 1, Len(call.before.dead)) = call.before.dead
               /\ dead[Len(dead)].resource = call.resource
     /\ stats.processed = call.before.stats.processed + 1
     /\ stats.inserted = call.before.stats.inserted
     /\ stats.updated = call.before.stats.updated
     /\ db = call.before.db

\* the invalid resource is one whose only violation is the missing link
C3_Witness ==
  /\ Called
  /\ call.resource = Condition_nolink
  /\ validate_resource(call.resource)
       = Result(FALSE, << <<"Cannot derive patientId from resource">> >>)
  /\ ~call.insert_fails
  /\ Len(dead) = Len(call.before.dead) + 1
  /\ dead[Len(dead)].resource = Condition_nolink

\* C4: Failure isolation in a batch. process_batch never ends with an
\* exception that process_resource raised on one of its elements: it calls
\* process_resource on all its elements and returns.
C4_FailureIsolation == ret.t = "raise" => ret.done = 0

\* the Patient/<id> references the resource carries and the ids of the
\* Patients it contains
LinkCandidates(resource) ==
  { Str(SplitAfterSlash(v.s)) :
      v \in { r \in { get_nested_value(resource, path) :
                        path \in { <<"subject", "reference">>,
                                   <<"patient", "reference">>,
                                   <<"encounter", "subject", "reference">> } } :
                r.t = "str" /\ StartsWith(r.s, <<"Patient", "/">>) } }
  \cup
  ( IF "contained" \in DOMAIN resource.f /\ resource.f["contained"].t = "arr"
      THEN { e.f["id"] :
               e \in { x \in { resource.f["contained"].a[k] :
                                 k \in 1..Len(resource.f["contained"].a) } :
                         /\ x.t = "obj"
                         /\ DOMAIN x.f = {"resourceType", "id"}
                         /\ x.f["resourceType"] = Word("Patient") } }
      ELSE {} )

\* C5: Patient-link invariant. Every document in every type collection has
\* a non-empty patientId, which is the <id> of a "Patient/<id>" reference of
\* the resource embedded in the document or the id of a Patient that
\* resource contains.
C5_PatientLink ==
  \A doc \in AllDocs(db) :
    /\ Truthy(doc.patientId)
    /\ doc.patientId \in LinkCandidates(doc.resource)

\* documents linked by a reference and by a contained Patient are both stored
C5_Witness ==
  /\ \E doc \in AllDocs(db) :
       doc.resource = Condition_c1 /\ doc.patientId = Word("p9")
  /\ \E doc \in AllDocs(db) :
       doc.resource = Observation_o1 /\ doc.patientId = Word("p1")

-----------------------------------------------------------------------------
\* none of the last two process_resource calls ended with an exception
NoCallRaised ==
  /\ Called => call.ret # "raise"
  /\ prev.t = "call" => prev.ret # "raise"

\* C6: Statistics reset per batch. Every invocation of process_batch starts
\* with all counters at zero, and the statistics it returns count the
\* process_resource calls of that invocation only (stated for behaviours in
\* which no call raised, so that every earlier invocation returned).
C6_StatsResetPerBatch ==
  NoCallRaised =>
    /\ (pc = "batch" /\ i = 0 /\ j = 0) => stats = InitStats
    /\ ret.t = "stats" => ret.stats.processed = ret.done

-----------------------------------------------------------------------------
(* The pure functions: what was applied, and to what *)

Derived == pure.fn = "derive_patient_id"

Validated == pure.fn = "validate_resource"

\* a str of the form Patient/<id>, and its <id>
IsPatientRef(v) ==
  v.t = "str" /\ Len(v.s) >= 2 /\ v.s[1] = "Patient" /\ v.s[2] = "/"

RefId(v) == Str(SubSeq(v.s, 3, Len(v.s)))

\* a source that does not match: nothing there, or a str of another form
NoMatch(v) == ~Truthy(v) \/ (v.t = "str" /\ ~IsPatientRef(v))

SubjectRef(a) == get_nested_value(a, <<"subject", "reference">>)

PatientFieldRef(a) == get_nested_value(a, <<"patient", "reference">>)

\* encounter.subject.reference, a source of an Encounter only
EncounterRef(a) ==
  IF Get(a, "resourceType") = Word("Encounter")
    THEN get_nested_value(a, <<"encounter", "subject", "reference">>)
    ELSE None

\* 'contained' is absent or a list of objects
ContainedList(a) ==
  IF "contained" \notin DOMAIN a.f THEN << >> ELSE a.f["contained"].a

ContainedIsList(a) ==
  \/ "contained" \notin DOMAIN a.f
  \/ /\ a.f["contained"].t = "arr"
     /\ \A k \in 1..Len(a.f["contained"].a) : a.f["contained"].a[k].t = "obj"

\* the positions of the contained Patients that have an id
ContainedPatients(a) ==
  { k \in 1..Len(ContainedList(a)) :
      /\ Get(ContainedList(a)[k], "resourceType") = Word("Patient")
      /\ Truthy(Get(ContainedList(a)[k], "id")) }

\* C7: Link derivation priority. derive_patient_id takes the <id> of the
\* first source, in the order subject.reference, patient.reference,
\* encounter.subject.reference (Encounter only), contained Patients, that
\* matches; a subject.reference "Patient/x" gives x whatever the other
\* sources hold.
C7_DerivationPriority ==
  Derived =>
    LET a == pure.arg
    IN /\ IsPatientRef(SubjectRef(a)) => pure.out = RefId(SubjectRef(a))
       /\ (NoMatch(SubjectRef(a)) /\ IsPatientRef(PatientFieldRef(a)))
            => pure.out = RefId(PatientFieldRef(a))
       /\ ( /\ NoMatch(SubjectRef(a)) /\ NoMatch(PatientFieldRef(a))
            /\ IsPatientRef(EncounterRef(a)) )
            => pure.out = RefId(EncounterRef(a))
       /\ ( /\ NoMatch(SubjectRef(a)) /\ NoMatch(PatientFieldRef(a))
            /\ NoMatch(EncounterRef(a)) /\ ContainedIsList(a) )
            => pure.out = IF ContainedPatients(a) = {} THEN None
                          ELSE Get(ContainedList(a)[Min(ContainedPatients(a))], "id")

\* subject.reference is Patient/p1 while patient.reference names p2 and a
\* Patient p9 is contained: the link is p1
C7_Witness ==
  /\ Derived
  /\ SubjectRef(pure.arg) = Str(<<"Patient", "/", "p1">>)
  /\ PatientFieldRef(pure.arg) = Str(<<"Patient", "/", "p2">>)
  /\ ContainedIsList(pure.arg) /\ ContainedPatients(pure.arg) # {}
  /\ pure.out = Word("p1")

\* the resource passes the three base checks
PassesBase(a) ==
  /\ Truthy(Get(a, "resourceType"))
  /\ Truthy(Get(a, "id"))
  /\ Get(a, "resourceType").t = "str"
  /\ Get(a, "resourceType").s \in SupportedTypes

\* every check after the base checks, in the order of the code: the type it
\* belongs to ("*": all types), whether the resource fails it, its violation
Rules(a) ==
  << [on |-> "Patient", failed |-> ~Truthy(Get(a, "name")),
      msg |-> <<"Patient missing name">>],
     [on |-> "Observation", failed |-> ~Truthy(Get(a, "status")),
      msg |-> <<"Observation missing status">>],
     [on |-> "Observation", failed |-> ~Truthy(Get(a, "code")),
      msg |-> <<"Observation missing code">>],
     [on |-> "Observation",
      failed |-> ~Truthy(Get(a, "effectiveDateTime")) /\ ~Truthy(Get(a, "effectivePeriod")),
      msg |-> <<"Observation missing effectiveDateTime or effectivePeriod">>],
     [on |-> "Encounter", failed |-> ~Truthy(Get(a, "status")),
      msg |-> <<"Encounter missing status">>],
     [on |-> "Condition", failed |-> ~Truthy(Get(a, "code")),
      msg |-> <<"Condition missing code">>],
     [on |-> "*", failed |-> ~Truthy(derive_patient_id(a)),
      msg |-> <<"Cannot derive patientId from resource">>] >>

FailedRule(a, rule) ==
  /\ rule.on \in {"*", Get(a, "resourceType").s[1]}
  /\ rule.failed

\* the violations of the failed checks, in check order
FailedRules(a) ==
  LET Test(rule) == FailedRule(a, rule)
      failed == SelectSeq(Rules(a), Test)
  IN [k \in 1..Len(failed) |-> failed[k].msg]

\* C8: Cumulative validation. For a resource that passes the three base
\* checks, validate_resource (when it returns) reports one violation for
\* every failed type-specific check and for a failed patient-link check, in
\* check order and all distinct; an Observation without status and code
\* gets both violations; the result is valid exactly when there is none.
C8_CumulativeValidation ==
  (Validated /\ PassesBase(pure.arg) /\ pure.out # Raise) =>
    /\ pure.out.errors = FailedRules(pure.arg)
    /\ \A m, n \in 1..Len(pure.out.errors) :
         m # n => pure.out.errors[m] # pure.out.errors[n]
    /\ pure.out.valid <=> pure.out.errors = << >>
    /\ ( /\ Get(pure.arg, "resourceType") = Word("Observation")
         /\ ~Truthy(Get(pure.arg, "status")) /\ ~Truthy(Get(pure.arg, "code")) )
         => /\ Len(pure.out.errors) >= 2
            /\ pure.out.errors[1] = <<"Observation missing status">>
            /\ pure.out.errors[2] = <<"Observation missing code">>

\* an Observation without status, code and link: three violations
C8_Witness ==
  /\ Validated
  /\ PassesBase(pure.arg)
  /\ pure.out = Result(FALSE, << <<"Observation missing status">>,
                                 <<"Observation missing code">>,
                                 <<"Cannot derive patientId from resource">> >>)

-----------------------------------------------------------------------------
\* the last call left a document that holds its resource in a type collection
StoredBy ==
  /\ call.ret = "True"
  /\ \E doc \in AllDocs(db) : doc.resource = call.resource

\* the last call added a dead-letter entry that holds its resource
DeadLetteredBy ==
  /\ Len(dead) = Len(call.before.dead) + 1
  /\ dead[Len(dead)].resource = call.resource

\* C10 as claimed: every call to process_resource ends with its resource
\* stored in its type collection or dead-lettered, and never both.
C10_ExactlyOneTerminal ==
  Called => /\ StoredBy \/ DeadLetteredBy
            /\ ~(StoredBy /\ DeadLetteredBy)

\* C10 as amended: no call both stores and dead-letters its resource. A
\* call that returns True has stored it and written no dead-letter entry; a
\* call that returns False has written no type collection and has
\* dead-lettered it unless the dead-letter insert failed; a call that ends
\* with a failed dead-letter insert, or with an exception, has recorded the
\* resource in neither.
C10_TerminalStates ==
  Called =>
    /\ ~(StoredBy /\ DeadLetteredBy)
    /\ DeadLetteredBy => db = call.before.db
    /\ call.ret = "True" => StoredBy /\ dead = call.before.dead
    /\ call.ret = "False" =>
         /\ db = call.before.db
         /\ IF call.insert_fails THEN dead = call.before.dead ELSE DeadLetteredBy
    /\ call.ret = "raise" => db = call.before.db /\ dead = call.before.dead

\* a storage failure whose dead-letter insert fails too: recorded in neither
C10_Witness ==
  /\ Called
  /\ IsValid(call.resource)
  /\ call.ret = "False" /\ call.upsert_fails /\ call.insert_fails
  /\ ~StoredBy /\ ~DeadLetteredBy
  /\ stats.errors = call.before.stats.errors + 1

-----------------------------------------------------------------------------
\* the last call found its resource valid, built the document and attempted
\* the upsert, which failed
UpsertFailed ==
  /\ Called
  /\ IsValid(call.resource)
  /\ call.ret # "raise"
  /\ call.upsert_fails

\* the last call appended one dead-letter entry with this reason and details
DeadLetterAdded(reason, details) ==
  /\ Len(dead) = Len(call.before.dead) + 1
  /\ SubSeq(dead, 1, Len(call.before.dead)) = call.before.dead
  /\ dead[Len(dead)].resource = call.resource
  /\ dead[Len(dead)].reason = reason
  /\ dead[Len(dead)].details = details

\* C11 as claimed: when the upsert of a valid resource fails,
\* process_resource writes nothing into the type collections (no second
\* attempt), writes one dead-letter entry with reason 'storage_error' whose
\* details are the failure description, adds one to 'errors', leaves
\* 'inserted' and 'updated', and returns False.
C11_StorageFailureAlways ==
  UpsertFailed
  => /\ call.ret = "False"
     /\ db = call.before.db
     /\ DeadLetterAdded("storage_error", << <<"error">> >>)
     /\ stats.errors = call.before.stats.errors + 1
     /\ stats.inserted = call.before.stats.inserted
     /\ stats.updated = call.before.stats.updated

\* C11 as amended: the same, except that the dead-letter entry is written
\* unless the insert into the dead-letter collection fails too, and then
\* the dead-letter collection stays as it was.
C11_StorageFailure ==
  UpsertFailed
  => /\ call.ret = "False"
     /\ db = call.before.db
     /\ IF call.insert_fails
          THEN dead = call.before.dead
          ELSE DeadLetterAdded("storage_error", << <<"error">> >>)
     /\ stats.errors = call.before.stats.errors + 1
     /\ stats.inserted = call.before.stats.inserted
     /\ stats.updated = call.before.stats.updated

\* a failed upsert over a document that is already stored: the document
\* stays, the resource is dead-lettered
C11_Witness ==
  /\ UpsertFailed
  /\ ~call.insert_fails
  /\ call.resource = Observation_o1
  /\ Len(call.before.db["observations"]) = 1
  /\ db = call.before.db
  /\ DeadLetterAdded("storage_error", << <<"error">> >>)
  /\ call.ret = "False"

-----------------------------------------------------------------------------
\* the document process_resource builds from a resource it accepts
Projection(resource) ==
  WithEncounter(BaseDoc(resource, derive_patient_id(resource),
                        GetD(resource, "meta", EmptyDict)),
                Get(GetD(resource, "encounter", EmptyDict), "reference"))

\* C12: Overwrite on re-ingestion. After a successful ingestion, the
\* document stored under the resource's (resourceType, id) is the projection
\* of that resource alone: it has no field, such as encounterId, left from
\* an earlier version stored under the key.
C12_OverwriteOnReingestion ==
  (Called /\ call.ret = "True")
  => \A at \in DocsFor(db, call.resource) : db[at[1]][at[2]] = Projection(call.resource)

-----------------------------------------------------------------------------
\* C13: Isolated statistics for concurrent batches. A process_batch call
\* that found all counters at zero and ran while another request was being
\* served returns statistics that count its own resources only: 'processed'
\* is the length of its list, and so is inserted + updated + errors.
C13_IsolatedStatistics ==
  \A t \in DOMAIN threads :
    (threads[t].pc = "done" /\ threads[t].entry = InitStats)
    => /\ threads[t].ret.processed = Len(threads[t].resources)
       /\ threads[t].ret.inserted + threads[t].ret.updated + threads[t].ret.errors
            = Len(threads[t].resources)

-----------------------------------------------------------------------------
\* C14: Malformed HTTP request. A POST /ingest whose body is not a JSON
\* array is answered with status 400, with no process_resource call made
\* and with the statistics, the type collections and the dead-letter
\* collection as they were; and status 500 is answered only when an
\* exception has left process_batch.
C14_MalformedRequest ==
  /\ ret.t \in {"not_list", "get_json"}
       => /\ Response(ret).status = 400
          /\ State(stats, db, dead) = ret.before
          /\ call = ret.last
  /\ (ret.t # "none" /\ Response(ret).status = 500) => ret.t = "raise"

-----------------------------------------------------------------------------
\* the resource passes every structural and type-specific check, and the
\* only violation validate_resource finds is the missing patient link
LinkOnlyFailure(resource) ==
  validate_resource(resource)
    = Result(FALSE, << <<"Cannot derive patientId from resource">> >>)

\* C15: Distinct reason for link failure. A clinical resource that passes
\* every structural and type-specific check but carries no patient link is
\* dead-lettered with a reason other than 'validation_error'.
C15_DistinctLinkReason ==
  ( /\ Called
    /\ LinkOnlyFailure(call.resource)
    /\ Get(call.resource, "resourceType") # Word("Patient")
    /\ ~call.insert_fails )
  => /\ Len(dead) = Len(call.before.dead) + 1
     /\ dead[Len(dead)].resource = call.resource
     /\ dead[Len(dead)].reason # "validation_error"

-----------------------------------------------------------------------------
\* list a is the beginning of list b
IsPrefix(a, b) == Len(a) <= Len(b) /\ SubSeq(b, 1, Len(a)) = a

\* the last call ended in failure (it returned False)
Failed == Called /\ call.ret = "False"

\* C16 as claimed: the dead-letter entries written before a call are still
\* there, unmodified and in place, after it; and every failing call appends
\* one new entry, whether or not the key has entries already, so that the
\* same invalid resource ingested twice in a row leaves two more entries.
C16_AppendOnlyAlways ==
  /\ Called => IsPrefix(call.before.dead, dead)
  /\ TwoCalls => IsPrefix(prev.before.dead, call.before.dead)
  /\ Failed => Len(dead) = Len(call.before.dead) + 1
  /\ ( /\ TwoCalls
       /\ prev.resource = call.resource
       /\ IsInvalid(call.resource) )
     => Len(dead) = Len(prev.before.dead) + 2

\* C16 as amended: the same, for the failing calls whose insert into the
\* dead-letter collection succeeds; a call whose insert fails leaves the
\* collection as it was.
C16_AppendOnly ==
  /\ Called => IsPrefix(call.before.dead, dead)
  /\ TwoCalls => IsPrefix(prev.before.dead, call.before.dead)
  /\ Failed =>
       IF call.insert_fails
         THEN dead = call.before.dead
         ELSE /\ Len(dead) = Len(call.before.dead) + 1
              /\ dead[Len(dead)].resource = call.resource
  /\ ( /\ TwoCalls
       /\ prev.resource = call.resource
       /\ IsInvalid(call.resource)
       /\ ~prev.insert_fails /\ ~call.insert_fails )
     => /\ Len(dead) = Len(prev.before.dead) + 2
        /\ dead[Len(dead) - 1].resource = call.resource
        /\ dead[Len(dead)].resource = call.resource

\* the same invalid resource twice: two entries under one key
C16_Witness ==
  /\ TwoCalls
  /\ prev.resource = Observation_bad /\ call.resource = Observation_bad
  /\ ~prev.insert_fails /\ ~call.insert_fails
  /\ Len(dead) = 2
  /\ dead[1].id = dead[2].id /\ dead[1].resourceType = dead[2].resourceType
  /\ dead[1].resource = Observation_bad /\ dead[2].resource = Observation_bad

-----------------------------------------------------------------------------
\* the store operations all request threads have done so far
StoreOps ==
  UNION { { [t |-> t, n |-> n,
             resource |-> threads[t].outcomes[n].resource,
             outcome |-> threads[t].outcomes[n].outcome] :
              n \in 1..Len(threads[t].outcomes) } :
          t \in DOMAIN threads }

SameKey(a, b) ==
  Get(a, "resourceType") = Get(b, "resourceType") /\ Get(a, "id") = Get(b, "id")

\* the places in the type collections of the documents with the key of r
Stored(r) ==
  UNION { { <<c, k>> : k \in Matches(db[c], Get(r, "resourceType"), Get(r, "id")) } :
          c \in Collections }

ValidConcResources == { r \in ConcResources : IsValid(r) }

-----------------------------------------------------------------------------
\* the list has been processed with both batch sizes
Batched == pure.fn = "process_batch"

\* both runs made the same process_resource calls, left the same store and
\* counters and ended the same way, with the same statistics if they
\* returned; a run that returned has called process_resource on every
\* resource of the list, once each and in the order of the list
SameRuns ==
  /\ pure.out[1] = pure.out[2]
  /\ pure.out[1].t = "stats" => pure.out[1].calls = pure.arg.resources
  /\ pure.out[1].t = "raise" => IsPrefix(pure.out[1].calls, pure.arg.resources)

\* C18 as claimed: for every list and every two batch_size values, the two
\* runs are the same.
C18_ChunkingAnySize == Batched => SameRuns

\* C18 as amended: for every list and every two batch_size values that are
\* at least 1, the two runs are the same.
C18_Chunking == (Batched /\ pure.arg.a >= 1 /\ pure.arg.b >= 1) => SameRuns

\* one resource per chunk against the whole list in one chunk: two versions
\* under one key, the second overwriting the first
C18_Witness ==
  /\ Batched
  /\ pure.arg.a = 1 /\ pure.arg.b = DefaultBatchSize
  /\ ~pure.arg.upsert_fails
  /\ Len(pure.arg.resources) = MaxBatch
  /\ pure.arg.resources[1] = Observation_o1_enc
  /\ pure.arg.resources[MaxBatch] = Observation_o1
  /\ pure.out[1] = pure.out[2]
  /\ pure.out[1].t = "stats"
  /\ pure.out[1].stats.processed = MaxBatch
  /\ pure.out[1].stats.inserted >= 1 /\ pure.out[1].stats.updated >= 1
  /\ Len(pure.out[1].state.db["observations"]) >= 1

-----------------------------------------------------------------------------
\* the place in the running batch's list of the resource the last call got
LastIndex ==
  IF j > 0 THEN i + j
  ELSE IF i < Len(resources) THEN i ELSE Len(resources)

\* C19: Input immutability. After a process_resource call, on each of its
\* paths (validate_resource and derive_patient_id run inside it), the
\* caller's list still holds the resource that was passed, unchanged; the
\* document a successful call leaves under the resource's key embeds that
\* resource verbatim, and so does the dead-letter entry a failing call
\* writes.
C19_InputImmutability ==
  /\ (Called /\ pc = "batch" /\ batch_size > 0 /\ i + j > 0)
       => resources[LastIndex] = call.resource
  /\ (Called /\ call.ret = "True")
       => /\ DocsFor(db, call.resource) # {}
          /\ \A at \in DocsFor(db, call.resource) :
               db[at[1]][at[2]].resource = call.resource
  /\ (Called /\ call.ret = "False" /\ ~call.insert_fails)
       => /\ Len(dead) = Len(call.before.dead) + 1
          /\ dead[Len(dead)].resource = call.resource

\* one batch with a resource that is dead-lettered and a resource that is
\* stored, both embedded as they were passed
C19_Witness ==
  /\ TwoCalls
  /\ pc = "batch"
  /\ resources = << Observation_bad, Observation_o1_enc >>
  /\ prev.resource = Observation_bad /\ prev.ret = "False"
  /\ call.resource = Observation_o1_enc /\ call.ret = "True"
  /\ dead[Len(dead)].resource = Observation_bad
  /\ db["observations"][1].resource = Observation_o1_enc

-----------------------------------------------------------------------------
\* C20 as claimed: every call with a resource that validate_resource finds
\* invalid writes one dead-letter entry with reason 'validation_error' and
\* the whole list of violations as details, and adds one to 'errors' and
\* one to 'dead_letter'.
C20_ValidationAccountingAlways ==
  (Called /\ IsInvalid(call.resource))
  => /\ DeadLetterAdded("validation_error", validate_resource(call.resource).errors)
     /\ stats.errors = call.before.stats.errors + 1
     /\ stats.dead_letter = call.before.stats.dead_letter + 1

\* C20 as amended: such a call adds one to 'errors'; it writes the entry
\* and adds one to 'dead_letter' unless the insert into the dead-letter
\* collection fails, and then it writes no entry and leaves 'dead_letter'.
C20_ValidationAccounting ==
  (Called /\ IsInvalid(call.resource))
  => /\ stats.errors = call.before.stats.errors + 1
     /\ IF call.insert_fails
          THEN /\ dead = call.before.dead
               /\ stats.dead_letter = call.before.stats.dead_letter
          ELSE /\ DeadLetterAdded("validation_error",
                                  validate_resource(call.resource).errors)
               /\ stats.dead_letter = call.before.stats.dead_letter + 1

\* a resource with two violations, both carried by the entry
C20_Witness ==
  /\ Called
  /\ call.resource = Observation_bad
  /\ ~call.insert_fails
  /\ dead[Len(dead)].reason = "validation_error"
  /\ dead[Len(dead)].details
       = << <<"Observation missing status">>, <<"Observation missing code">> >>
  /\ stats.errors = call.before.stats.errors + 1
  /\ stats.dead_letter = call.before.stats.dead_letter + 1

-----------------------------------------------------------------------------
\* the last call went to _store_dead_letter (for an invalid resource, or
\* after a failed upsert) and the insert into the dead-letter collection
\* failed
DeadLetterInsertFailed ==
  /\ Called
  /\ call.insert_fails
  /\ IsInvalid(call.resource) \/ UpsertFailed

\* C21: Best-effort dead-letter write. When the insert into the dead-letter
\* collection fails, nothing is raised and nothing else is written: the
\* dead-letter collection and the type collections stay as they were (no
\* retry, no second-level entry), process_resource returns False, and
\* process_batch is not ended by the call: it goes on, or has returned
\* its statistics.
C21_BestEffortDeadLetter ==
  DeadLetterInsertFailed
  => /\ call.ret = "False"
     /\ dead = call.before.dead
     /\ db = call.before.db
     /\ stats.dead_letter = call.before.stats.dead_letter
     /\ \/ pc = "batch"
        \/ ret.t = "stats"
        \/ ret.t = "raise" /\ ret.done = 0

\* the dead-letter insert for the first resource of a batch fails, and the
\* batch goes on to store the second
C21_Witness ==
  /\ TwoCalls
  /\ pc = "batch"
  /\ resources = << Observation_bad, Observation_o1 >>
  /\ prev.resource = Observation_bad /\ prev.insert_fails /\ prev.ret = "False"
  /\ call.before.dead = prev.before.dead
  /\ call.resource = Observation_o1 /\ call.ret = "True"
  /\ Len(db["observations"]) = 1

-----------------------------------------------------------------------------
\* the result of the contained scan, for a 'contained' that is absent or a
\* list of objects
ContainedResult(a) ==
  IF ContainedPatients(a) = {} THEN None
  ELSE Get(ContainedList(a)[Min(ContainedPatients(a))], "id")

\* C22: Strict reference parsing. A value at a reference source that does
\* not start with "Patient/" (nothing there, a str of another form, a value
\* that is no str, a path through a field that is no object) is ignored:
\* derive_patient_id does not raise on it and its result is that of the
\* next source in priority order.
C22_StrictReferenceParsing ==
  Derived =>
    LET a == pure.arg
    IN /\ ContainedIsList(a) => pure.out # Raise
       /\ (~IsPatientRef(SubjectRef(a)) /\ IsPatientRef(PatientFieldRef(a)))
            => pure.out = RefId(PatientFieldRef(a))
       /\ ( /\ ~IsPatientRef(SubjectRef(a)) /\ ~IsPatientRef(PatientFieldRef(a))
            /\ IsPatientRef(EncounterRef(a)) )
            => pure.out = RefId(EncounterRef(a))
       /\ ( /\ ~IsPatientRef(SubjectRef(a)) /\ ~IsPatientRef(PatientFieldRef(a))
            /\ ~IsPatientRef(EncounterRef(a)) /\ ContainedIsList(a) )
            => pure.out = ContainedResult(a)

-----------------------------------------------------------------------------
\* no reference source matches: each holds nothing or a str of another form
NoReferenceMatches(a) ==
  NoMatch(SubjectRef(a)) /\ NoMatch(PatientFieldRef(a)) /\ NoMatch(EncounterRef(a))

\* 'contained' is absent or a list, of whatever elements
ContainedIsArr(a) ==
  "contained" \notin DOMAIN a.f \/ a.f["contained"].t = "arr"

\* the positions of the contained elements whose resourceType is Patient
AllContainedPatients(a) ==
  { k \in 1..Len(ContainedList(a)) :
      Get(ContainedList(a)[k], "resourceType") = Word("Patient") }

\* the positions of the contained elements that are no objects
NonObjects(a) ==
  { k \in 1..Len(ContainedList(a)) : ContainedList(a)[k].t # "obj" }

\* C23 as claimed: when no reference source matches (and 'contained' is
\* absent or a list of objects), derive_patient_id returns the id of the
\* first contained element whose resourceType is Patient, and nothing when
\* no element is a Patient.
C23_FirstContainedPatient ==
  (Derived /\ NoReferenceMatches(pure.arg) /\ ContainedIsList(pure.arg))
  => LET a == pure.arg
     IN pure.out = IF AllContainedPatients(a) = {} THEN None
                   ELSE Get(ContainedList(a)[Min(AllContainedPatients(a))], "id")

\* C23 as amended: when no reference source matches and 'contained' is
\* absent or a list, derive_patient_id returns the id of the first
\* contained element whose resourceType is Patient and whose id is not
\* empty; it returns nothing when there is no such element and every
\* element is an object, and raises when it meets an element that is no
\* object before it finds one.
C23_ContainedFallback ==
  (Derived /\ NoReferenceMatches(pure.arg) /\ ContainedIsArr(pure.arg))
  => LET a == pure.arg
         found == ContainedPatients(a)
         bad == NonObjects(a)
     IN pure.out = IF found # {} /\ (bad = {} \/ Min(found) < Min(bad))
                     THEN Get(ContainedList(a)[Min(found)], "id")
                   ELSE IF bad # {} THEN Raise
                   ELSE None

\* the first contained Patient has an empty id: the id of the second is
\* the result
C23_Witness ==
  /\ Derived
  /\ NoReferenceMatches(pure.arg)
  /\ ContainedIsList(pure.arg)
  /\ Len(ContainedList(pure.arg)) = 2
  /\ AllContainedPatients(pure.arg) = {1, 2}
  /\ ContainedPatients(pure.arg) = {2}
  /\ pure.out = Word("p8")

-----------------------------------------------------------------------------
\* what the resource holds at encounter.subject.reference, whatever its type
EncounterSubjectRef(a) ==
  get_nested_value(a, <<"encounter", "subject", "reference">>)

IsEncounter(a) == Get(a, "resourceType") = Word("Encounter")

\* C24: Encounter-only fallback path. A Patient/<id> at
\* encounter.subject.reference gives the link of an Encounter when
\* subject.reference and patient.reference do not match, whatever
\* 'contained' holds, and gives way to either of them when it matches; for
\* a resource of another type it is not consulted: the link comes from
\* subject.reference, patient.reference or the contained scan alone.
C24_EncounterOnlyPath ==
  (Derived /\ IsPatientRef(EncounterSubjectRef(pure.arg)))
  => LET a == pure.arg
         first == IsPatientRef(SubjectRef(a))
         second == NoMatch(SubjectRef(a)) /\ IsPatientRef(PatientFieldRef(a))
         neither == NoMatch(SubjectRef(a)) /\ NoMatch(PatientFieldRef(a))
     IN /\ first => pure.out = RefId(SubjectRef(a))
        /\ second => pure.out = RefId(PatientFieldRef(a))
        /\ (neither /\ IsEncounter(a))
             => pure.out = RefId(EncounterSubjectRef(a))
        /\ (neither /\ ~IsEncounter(a) /\ ContainedIsList(a))
             => pure.out = ContainedResult(a)

\* an Encounter without subject.reference and patient.reference that
\* contains a Patient p9: the link is the p3 of encounter.subject.reference
C24_Witness ==
  /\ Derived
  /\ IsEncounter(pure.arg)
  /\ ~Truthy(SubjectRef(pure.arg)) /\ ~Truthy(PatientFieldRef(pure.arg))
  /\ EncounterSubjectRef(pure.arg) = Str(<<"Patient", "/", "p3">>)
  /\ ContainedIsList(pure.arg) /\ ContainedPatients(pure.arg) = {1}
  /\ pure.out = Word("p3")

-----------------------------------------------------------------------------
\* C25: Type-to-collection routing invariant. In every state each document
\* of a type collection has the resourceType the mapping assigns to that
\* collection, and holds a resource of that type that validate_resource
\* accepts; a resource that fails validation is in no type collection, and
\* a call that failed has written none.
C25_RoutingInvariant ==
  /\ \A ty \in SupportedTypes :
       \A k \in 1..Len(db[SUPPORTED_RESOURCES[ty]]) :
         LET doc == db[SUPPORTED_RESOURCES[ty]][k]
         IN /\ doc.resourceType = Str(ty)
            /\ Get(doc.resource, "resourceType") = Str(ty)
            /\ IsValid(doc.resource)
  /\ \A r \in InvalidResources : \A doc \in AllDocs(db) : doc.resource # r
  /\ (Called /\ call.ret = "False") => db = call.before.db

\* an invalid Observation went to the dead-letter collection and a valid
\* one to 'observations'; every other type collection is empty
C25_Witness ==
  /\ TwoCalls
  /\ prev.resource = Observation_bad /\ prev.ret = "False" /\ ~prev.insert_fails
  /\ call.resource = Observation_o1 /\ call.ret = "True"
  /\ Len(dead) = 1 /\ dead[1].resource = Observation_bad
  /\ Len(db["observations"]) = 1
  /\ db["observations"][1].resource = Observation_o1
  /\ \A c \in Collections \ {"observations"} : db[c] = << >>

-----------------------------------------------------------------------------
\* the dead-letter insert of a recorded call failed
InsertFailedIn(c) ==
  c.t = "call" /\ c.ret = "False" /\ c.insert_fails

\* `call` and `prev` are all the calls made so far
HistoryComplete ==
  stats.processed = IF prev.t = "call" THEN 2 ELSE 1

\* the counters, of inserted, updated and errors, that the last call
\* increased by one
Increased ==
  { c \in {"inserted", "updated", "errors"} :
      stats[c] = call.before.stats[c] + 1 }

\* the last call left every counter but `processed` and those of
\* Increased, and dead_letter, as it was
OthersKept ==
  \A c \in {"inserted", "updated", "errors"} \ Increased :
    stats[c] = call.before.stats[c]

\* C26: Counter conservation. After every process_resource call that
\* returns, processed = inserted + updated + errors and dead_letter <=
\* errors, with dead_letter = errors when no dead-letter insert has failed;
\* the call has increased processed by one and exactly one of inserted,
\* updated, errors by one.
C26_CounterConservation ==
  (Called /\ call.ret # "raise")
  => /\ stats.processed = stats.inserted + stats.updated + stats.errors
     /\ stats.dead_letter <= stats.errors
     /\ (HistoryComplete /\ ~InsertFailedIn(call) /\ ~InsertFailedIn(prev))
          => stats.dead_letter = stats.errors
     /\ stats.processed = call.before.stats.processed + 1
     /\ Cardinality(Increased) = 1
     /\ OthersKept

\* what is left of C26 where no call has raised
ConservationWithoutRaise ==
  (Called /\ call.ret # "raise" /\ (prev.t = "call" => prev.ret # "raise"))
  => /\ HistoryComplete
          => stats.processed = stats.inserted + stats.updated + stats.errors
     /\ stats.dead_letter <= stats.errors
     /\ (HistoryComplete /\ ~InsertFailedIn(call) /\ ~InsertFailedIn(prev))
          => stats.dead_letter = stats.errors
     /\ stats.processed = call.before.stats.processed + 1
     /\ Cardinality(Increased) = 1
     /\ OthersKept

-----------------------------------------------------------------------------
\* the reference is exactly "Patient/"
IsEmptyRef(v) == v = Str(<<"Patient", "/">>)

\* the first source that matches holds exactly "Patient/"
EmptyRefFirst(a) ==
  \/ IsEmptyRef(SubjectRef(a))
  \/ NoMatch(SubjectRef(a)) /\ IsEmptyRef(PatientFieldRef(a))
  \/ /\ NoMatch(SubjectRef(a)) /\ NoMatch(PatientFieldRef(a))
     /\ IsEmptyRef(EncounterRef(a))

\* C27: Empty-id reference stops the search. When the first source that
\* matches holds exactly "Patient/", derive_patient_id returns the empty
\* string whatever the later sources hold, and validate_resource rejects
\* the resource (of a supported type, with an id) with 'Cannot derive
\* patientId from resource' as its last violation.
C27_EmptyIdStopsSearch ==
  EmptyRefFirst(pure.arg)
  => /\ Derived => pure.out = Str(<< >>)
     /\ (Validated /\ PassesBase(pure.arg))
          => /\ pure.out.t = "ret"
             /\ ~pure.out.valid
             /\ pure.out.errors[Len(pure.out.errors)]
                  = <<"Cannot derive patientId from resource">>

\* subject.reference is "Patient/" while patient.reference names p2 and a
\* Patient p9 is contained: the resource is rejected for its link alone
C27_Witness ==
  /\ Validated
  /\ IsEmptyRef(SubjectRef(pure.arg))
  /\ PatientFieldRef(pure.arg) = Str(<<"Patient", "/", "p2">>)
  /\ ContainedIsList(pure.arg) /\ ContainedPatients(pure.arg) # {}
  /\ pure.out = Result(FALSE, << <<"Cannot derive patientId from resource">> >>)

-----------------------------------------------------------------------------
\* C28: Unreachable LinkMissing state. In every state no dead-letter entry
\* has the reason 'no_patient_reference': each entry was written for a
\* validation failure or a storage failure, and a resource that
\* validate_resource accepts has a link that derive_patient_id derives.
C28_LinkMissingUnreachable ==
  /\ \A k \in 1..Len(dead) :
       /\ dead[k].reason # "no_patient_reference"
       /\ dead[k].reason \in {"validation_error", "storage_error"}
  /\ \A r \in ValidResources : Truthy(derive_patient_id(r))
  /\ (Called /\ call.ret = "False" /\ ~call.insert_fails)
       => dead[Len(dead)].reason = IF IsInvalid(call.resource)
                                     THEN "validation_error"
                                     ELSE "storage_error"

\* a Condition without any link was dead-lettered by the validation, with
\* the link violation as its only detail, before a linked Observation was
\* stored
C28_Witness ==
  /\ TwoCalls
  /\ prev.resource = Condition_nolink /\ prev.ret = "False"
  /\ derive_patient_id(prev.resource) = None
  /\ Len(dead) = 1
  /\ dead[1].resource = Condition_nolink
  /\ dead[1].reason = "validation_error"
  /\ dead[1].details = << <<"Cannot derive patientId from resource">> >>
  /\ call.resource = Observation_o1 /\ call.ret = "True"

-----------------------------------------------------------------------------
\* the process_resource calls that the threads have made in all
CallsMade == threads[1].k + threads[2].k

\* C29: No lost counter updates under concurrency. When the two
\* process_batch calls that ran in parallel have both returned, `processed`
\* is the number of process_resource calls they made and inserted +
\* updated + errors equals `processed`.
C29_NoLostUpdates ==
  (\A t \in DOMAIN threads : threads[t].pc = "done")
  => /\ stats.processed = CallsMade
     /\ stats.inserted + stats.updated + stats.errors = stats.processed

-----------------------------------------------------------------------------
\* what process_batch did with the given batch size agrees with C30
AsForSize(run, size) ==
  /\ size < 0 => /\ run.t = "stats"
                 /\ run.calls = << >>
                 /\ run.stats = stats
                 /\ run.state = State(stats, db, dead)
  /\ size = 0 => /\ run.t = "raise"
                 /\ run.calls = << >>
                 /\ run.state = State(stats, db, dead)
  /\ (size >= 1 /\ run.t = "stats") => run.calls = pure.arg.resources
  /\ (pure.arg.resources # << >> /\ run.calls = pure.arg.resources) => size >= 1

\* C30: Non-positive batch_size. process_batch processes every resource of
\* a non-empty list only when batch_size >= 1; with a negative batch_size
\* it returns the unchanged statistics without a process_resource call and
\* leaves the store as it was, and with batch_size = 0 it raises before any
\* process_resource call.
C30_NonPositiveBatchSize ==
  Batched => /\ AsForSize(pure.out[1], pure.arg.a)
             /\ AsForSize(pure.out[2], pure.arg.b)

\* a full list with batch_size -1 and with batch_size 0: no call in either
\* run, the first returns the statistics and the second raises
C30_Witness ==
  /\ Batched
  /\ Len(pure.arg.resources) = MaxBatch
  /\ pure.arg.a = -1 /\ pure.arg.b = 0
  /\ pure.out[1].t = "stats" /\ pure.out[1].stats = InitStats
  /\ pure.out[1].calls = << >>
  /\ pure.out[2].t = "raise" /\ pure.out[2].calls = << >>

====
